---- MODULE Spec2Model ----
(***************************************************************************)
(* Balance watchers of solanakite/kite: watchLamportBalance (lib/sol.ts)   *)
(* and watchTokenBalance (lib/tokens.ts).                                  *)
(*                                                                         *)
(* One watch session is modelled.  Each of its two async workflows         *)
(* (fetchInitialBalance, subscribeToUpdates) is a sequence of awaits; an   *)
(* await is two steps: the awaited promise settles (an "...Settles"        *)
(* action, the collaborator's move) and later the continuation of the      *)
(* async function runs to its next await (the action named after the       *)
(* function, the code's move).  JavaScript runs each continuation to       *)
(* completion, so a continuation is one atomic action; other continuations *)
(* and the caller's cleanup() may run between a settlement and the         *)
(* continuation that consumes it.                                          *)
(***************************************************************************)
EXTENDS Integers, Sequences, FiniteSets, TLC

VARIABLES
    session,        \* "none" before the watch call, then "lamport" or "token"
    malformed,      \* the address / mint handed to the watch call is not well-formed
    aborted,        \* abortController.signal.aborted
    lastUpdateSlot, \* let lastUpdateSlot = -1n
    snapPc,         \* fetchInitialBalance: "idle", "awaiting", "done"
    snapRes,        \* outcome of the promise fetchInitialBalance awaits
    subPc,          \* subscribeToUpdates: "idle", "deriving", "subscribing", "iterating", "requery", "done"
    subRes,         \* outcome of the promise subscribeToUpdates awaits
    calls,          \* history: the callback invocations, in order
    arrived,        \* history: the settled outcomes the workflows consumed, in order
    cleanupCalls,   \* history: how often the returned cleanup function was called
    notifications,  \* how many notifications the subscription has emitted
    \* one call of checkTokenAccountIsClosed (lib/tokens.ts)
    checkPc,        \* "idle", "awaiting", "done"
    options,        \* the options object handed to the call
    checkRes,       \* outcome of the promise checkTokenAccountIsClosed awaits
    checkOutcome,   \* what the promise returned by checkTokenAccountIsClosed settles to
    \* two concurrent watchLamportBalance sessions
    sessions,       \* per session: its workflows, callback history and consumed deliveries
    lastUpdateSlots,\* the lastUpdateSlot variables that exist, by scope
    abortSignals,   \* the abortController.signal.aborted flags that exist, by scope
    \* one call of airdropIfRequired (lib/sol.ts)
    airdropPc,      \* "idle", "queryingBalance", "airdropping", "done"
    airdropArgs,    \* airdropAmount, minimumBalance and commitment of the call
    airdropRes,     \* outcome of the promise airdropIfRequired or doAirDrop awaits
    airdropOutcome, \* what the promise returned by airdropIfRequired settles to
    balanceQueries, \* history: the balances getLamportBalance returned to the call
    airdropRequests \* history: the requests made to airdrop(...)

watchVars == <<session, malformed, aborted, lastUpdateSlot, snapPc, snapRes, subPc, subRes,
               calls, arrived, cleanupCalls, notifications>>
checkVars == <<checkPc, options, checkRes, checkOutcome>>
pairVars == <<sessions, lastUpdateSlots, abortSignals>>
airdropVars == <<airdropPc, airdropArgs, airdropRes, airdropOutcome, balanceQueries,
                 airdropRequests>>

vars == <<watchVars, checkVars, pairVars, airdropVars>>

(***************************************************************************)
(* Bounds and input sets.                                                  *)
(***************************************************************************)
MaxNotifications == 2
MaxCleanupCalls == 2
\* notifications and cleanup calls of the sessions whose termination is checked
MaxLiveNotifications == 1
MaxLiveCleanupCalls == 1
\* notifications per session in the two-session model
MaxPairNotifications == 1

Slots == {3, 5, 7}
\* the slots of the two-session model
PairSlots == {3, 5}

\* The watched account's balance at each slot: the value a snapshot or a
\* notification of that slot carries.
LamportsAt(slot) == CASE slot = 3 -> 900 [] slot = 5 -> 1000 [] slot = 7 -> 1500

(***************************************************************************)
(* Values.                                                                 *)
(***************************************************************************)
Null == [tag |-> "null"]
Pending == [tag |-> "pending"]

Lamports(n) == [tag |-> "lamports", lamports |-> n]

\* rpc.getTokenAccountBalance(...).send() results: value.amount is a decimal string
\* (here its digits); context.slot is the slot the node answered at.
RpcTokenAmount ==
    [amount |-> <<2, 0, 0, 0, 0, 0, 0>>, decimals |-> 6, uiAmount |-> 2, uiAmountString |-> "2"]

RpcTokenBalanceResults ==
    { [context |-> [slot |-> s], value |-> RpcTokenAmount] : s \in Slots }

\* BigInt(amount) of a decimal string
RECURSIVE BigInt(_)
BigInt(digits) ==
    IF digits = <<>> THEN 0
    ELSE 10 * BigInt(SubSeq(digits, 1, Len(digits) - 1)) + digits[Len(digits)]

\* what getTokenAccountBalance returns for an RPC result: the four fields of
\* result.value, amount as a bigint; result.context is dropped
getTokenAccountBalance(result) ==
    [tag |-> "token",
     amount |-> BigInt(result.value.amount),
     decimals |-> result.value.decimals,
     uiAmount |-> result.value.uiAmount,
     uiAmountString |-> result.value.uiAmountString]

\* Mutant: the catch blocks pass no balance at all.
ZeroBalanceMissing == Null

\* the literal both catch blocks of watchTokenBalance pass to the callback
ZeroBalance ==
    [tag |-> "token", amount |-> 0, decimals |-> 9, uiAmount |-> 0, uiAmountString |-> "0"]

\* Thrown values.  For a value that is not an Error, message holds String(value).
AbortError == [isError |-> TRUE, name |-> "AbortError", message |-> "This operation was aborted"]
TransportFailure == [isError |-> TRUE, name |-> "TypeError", message |-> "fetch failed"]
AccountAbsent ==
    [isError |-> TRUE, name |-> "SolanaError", message |-> "Invalid param: could not find account"]
MalformedIdentity ==
    [isError |-> TRUE, name |-> "SolanaError", message |-> "Invalid param: Invalid"]
NonErrorThrown == [isError |-> FALSE, name |-> "undefined", message |-> "boom"]

Resolved(s, v) == [tag |-> "resolved", slot |-> s, value |-> v]
Rejected(t) == [tag |-> "rejected", thrown |-> t]
StreamEnd == [tag |-> "end"]

\* Mutant: the thrown value is passed on as it is.
ensureErrorPassesThrough(thrownObject) == thrownObject

\* const ensureError = (thrownObject: unknown): Error => ...
ensureError(thrownObject) ==
    IF thrownObject.isError
    THEN thrownObject
    ELSE [isError |-> TRUE, name |-> "Error",
          message |-> "Non-Error thrown: " \o thrownObject.message]

\* History record of a continuation consuming the settled outcome of its await:
\* which workflow, at which await, and whether the signal had aborted by then.
Event(outcome, from, stage) ==
    [outcome |-> outcome, from |-> from, stage |-> stage, cancelled |-> aborted]

\* History record of callback(error, balance): slot is the slot the code holds for
\* the published value (-1: none), cause the index in arrived of the outcome being
\* handled, cancelled whether the signal had aborted when the call was made.
Call(error, balance, slot, from) ==
    [error |-> error, balance |-> balance, slot |-> slot, from |-> from,
     cause |-> Len(arrived) + 1, cancelled |-> aborted]

\* The two watchLamportBalance calls of the two-session model, and the scopes a
\* `let lastUpdateSlot` / `const abortController` can belong to: one call (the
\* call's number) or the factory (0).
SessionIds == {1, 2}
Scopes == {0} \cup SessionIds

IdleSession ==
    [started |-> FALSE, snapPc |-> "idle", snapRes |-> Pending, subPc |-> "idle",
     subRes |-> Pending, calls |-> <<>>, delivered |-> <<>>, notifications |-> 0,
     cleaned |-> FALSE]

Init ==
    /\ session = "none"
    /\ malformed = FALSE
    /\ aborted = FALSE
    /\ lastUpdateSlot = -1
    /\ snapPc = "idle"
    /\ snapRes = Pending
    /\ subPc = "idle"
    /\ subRes = Pending
    /\ calls = <<>>
    /\ arrived = <<>>
    /\ cleanupCalls = 0
    /\ notifications = 0
    /\ checkPc = "idle"
    /\ options = Null
    /\ checkRes = Pending
    /\ checkOutcome = Pending
    /\ sessions = [i \in SessionIds |-> IdleSession]
    /\ lastUpdateSlots = [scope \in Scopes |-> -1]
    /\ abortSignals = [scope \in Scopes |-> FALSE]
    /\ airdropPc = "idle"
    /\ airdropArgs = Null
    /\ airdropRes = Pending
    /\ airdropOutcome = Pending
    /\ balanceQueries = <<>>
    /\ airdropRequests = <<>>

\* Mutant: the address is validated inside the call and a malformed one is
\* reported to the callback before the call returns.
watchLamportBalanceReportsInline ==
    /\ session = "none"
    /\ session' = "lamport"
    /\ \E m \in BOOLEAN :
          /\ malformed' = m
          /\ snapPc' = IF m THEN "done" ELSE "awaiting"
          /\ calls' = IF m THEN Append(calls, Call(MalformedIdentity, Null, -1, "snapshot"))
                          ELSE calls
    /\ aborted' = FALSE
    /\ lastUpdateSlot' = -1
    /\ snapRes' = Pending
    /\ subPc' = "subscribing"
    /\ subRes' = Pending
    /\ UNCHANGED <<arrived, cleanupCalls, notifications>>
    /\ UNCHANGED <<checkVars, pairVars, airdropVars>>

\* Mutant: the last update slot is seeded with a slot instead of -1.
watchLamportBalanceSeededHigh ==
    /\ session = "none"
    /\ session' = "lamport"
    /\ \E m \in BOOLEAN : malformed' = m
    /\ aborted' = FALSE
    /\ lastUpdateSlot' = 7
    /\ snapPc' = "awaiting"
    /\ snapRes' = Pending
    /\ subPc' = "subscribing"
    /\ subRes' = Pending
    /\ UNCHANGED <<calls, arrived, cleanupCalls, notifications>>
    /\ UNCHANGED <<checkVars, pairVars, airdropVars>>

\* watchLamportBalance(address, callback): the synchronous part of the call
watchLamportBalance ==
    /\ session = "none"
    /\ session' = "lamport"
    /\ \E m \in BOOLEAN : malformed' = m
    /\ aborted' = FALSE
    /\ lastUpdateSlot' = -1
    /\ snapPc' = "awaiting"
    /\ snapRes' = Pending
    /\ subPc' = "subscribing"
    /\ subRes' = Pending
    /\ UNCHANGED <<calls, arrived, cleanupCalls, notifications>>
    /\ UNCHANGED <<checkVars, pairVars, airdropVars>>

(***************************************************************************)
(* watchLamportBalance's workflows (lib/sol.ts).                           *)
(***************************************************************************)

\* What rpc.getBalance(address, {commitment}).send({abortSignal}) can settle to.
\* A request that is pending when the signal aborts rejects with the abort reason.
GetBalanceOutcomes ==
    IF aborted THEN {Rejected(AbortError)}
    ELSE IF malformed THEN {Rejected(MalformedIdentity)}
    ELSE {Resolved(s, Lamports(LamportsAt(s))) : s \in Slots}
         \cup {Rejected(TransportFailure), Rejected(NonErrorThrown)}

\* What rpcSubscriptions.accountNotifications(address).subscribe({abortSignal}) can settle to.
SubscribeOutcomes ==
    IF aborted THEN {Rejected(AbortError)}
    ELSE IF malformed THEN {Rejected(MalformedIdentity)}
    ELSE {Resolved(-1, Null), Rejected(TransportFailure), Rejected(NonErrorThrown)}

\* What the next step of  for await (... of accountInfoNotifications)  can settle to:
\* a notification, a failure of the stream, or its end.  Once aborted the stream
\* emits nothing more: it ends, or fails with the abort reason.
NotificationOutcomes ==
    IF aborted THEN {StreamEnd, Rejected(AbortError)}
    ELSE {Resolved(s, Lamports(LamportsAt(s))) :
             s \in (IF notifications < MaxNotifications THEN Slots ELSE {})}
         \cup {StreamEnd, Rejected(TransportFailure), Rejected(NonErrorThrown)}

\* Mutant: the snapshot is published whatever its slot.
SnapshotNeverStale(slot) == FALSE

\* if (slot < lastUpdateSlot) return;            (fetchInitialBalance)
SnapshotIsStale(slot) == slot < lastUpdateSlot

\* Mutant: once an error has been reported, notifications are no longer published.
NotificationIsStaleOrAfterError(slot) ==
    slot < lastUpdateSlot \/ \E i \in DOMAIN calls : calls[i].error # Null

\* if (slot < lastUpdateSlot) continue;          (subscribeToUpdates)
NotificationIsStale(slot) == slot < lastUpdateSlot

\* Mutant: the comparison is inverted.
LamportReportsInverted(error) == error.name = "AbortError"

\* if (error.name !== 'AbortError') callback(error, null);
LamportReports(error) == error.name # "AbortError"

\* await rpc.getBalance(...).send({ abortSignal })  settles
GetBalanceSettles ==
    /\ session = "lamport"
    /\ snapPc = "awaiting"
    /\ snapRes = Pending
    /\ \E o \in GetBalanceOutcomes : snapRes' = o
    /\ UNCHANGED <<session, malformed, aborted, lastUpdateSlot, snapPc, subPc, subRes,
                   calls, arrived, cleanupCalls, notifications>>
    /\ UNCHANGED <<checkVars, pairVars, airdropVars>>

\* Mutant: a failure of the snapshot request aborts the session.
LamportFetchInitialBalanceAbortsOnFailure ==
    /\ session = "lamport"
    /\ snapPc = "awaiting"
    /\ snapRes # Pending
    /\ snapPc' = "done"
    /\ snapRes' = Pending
    /\ arrived' = Append(arrived, Event(snapRes, "snapshot", "snapshot"))
    /\ IF snapRes.tag = "resolved"
       THEN /\ UNCHANGED aborted
            /\ IF SnapshotIsStale(snapRes.slot)
               THEN UNCHANGED <<lastUpdateSlot, calls>>
               ELSE /\ lastUpdateSlot' = snapRes.slot
                    /\ calls' = Append(calls, Call(Null, snapRes.value, snapRes.slot, "snapshot"))
       ELSE /\ UNCHANGED lastUpdateSlot
            /\ aborted' = TRUE
            /\ LET error == ensureError(snapRes.thrown) IN
               IF LamportReports(error)
               THEN calls' = Append(calls, Call(error, Null, -1, "snapshot"))
               ELSE UNCHANGED calls
    /\ UNCHANGED <<session, malformed, subPc, subRes, cleanupCalls, notifications>>
    /\ UNCHANGED <<checkVars, pairVars, airdropVars>>

\* fetchInitialBalance: from the settled await to the end of the function
LamportFetchInitialBalance ==
    /\ session = "lamport"
    /\ snapPc = "awaiting"
    /\ snapRes # Pending
    /\ snapPc' = "done"
    /\ snapRes' = Pending
    /\ arrived' = Append(arrived, Event(snapRes, "snapshot", "snapshot"))
    /\ IF snapRes.tag = "resolved"
       THEN IF SnapshotIsStale(snapRes.slot)
            THEN UNCHANGED <<lastUpdateSlot, calls>>
            ELSE /\ lastUpdateSlot' = snapRes.slot
                 /\ calls' = Append(calls, Call(Null, snapRes.value, snapRes.slot, "snapshot"))
       ELSE /\ UNCHANGED lastUpdateSlot
            /\ LET error == ensureError(snapRes.thrown) IN
               IF LamportReports(error)
               THEN calls' = Append(calls, Call(error, Null, -1, "snapshot"))
               ELSE UNCHANGED calls
    /\ UNCHANGED <<session, malformed, aborted, subPc, subRes, cleanupCalls, notifications>>
    /\ UNCHANGED <<checkVars, pairVars, airdropVars>>

\* await rpcSubscriptions.accountNotifications(address).subscribe({ abortSignal })  settles
LamportSubscribeSettles ==
    /\ session = "lamport"
    /\ subPc = "subscribing"
    /\ subRes = Pending
    /\ \E o \in SubscribeOutcomes : subRes' = o
    /\ UNCHANGED <<session, malformed, aborted, lastUpdateSlot, snapPc, snapRes, subPc,
                   calls, arrived, cleanupCalls, notifications>>
    /\ UNCHANGED <<checkVars, pairVars, airdropVars>>

\* subscribeToUpdates: from the settled subscribe to the first step of the loop,
\* or through the outer catch
LamportSubscribeToUpdates ==
    /\ session = "lamport"
    /\ subPc = "subscribing"
    /\ subRes # Pending
    /\ subRes' = Pending
    /\ arrived' = Append(arrived, Event(subRes, "subscription", subPc))
    /\ IF subRes.tag = "resolved"
       THEN /\ subPc' = "iterating"
            /\ UNCHANGED calls
       ELSE /\ subPc' = "done"
            /\ LET error == ensureError(subRes.thrown) IN
               IF LamportReports(error)
               THEN calls' = Append(calls, Call(error, Null, -1, "subscription"))
               ELSE UNCHANGED calls
    /\ UNCHANGED <<session, malformed, aborted, lastUpdateSlot, snapPc, snapRes,
                   cleanupCalls, notifications>>
    /\ UNCHANGED <<checkVars, pairVars, airdropVars>>

\* the next element of accountInfoNotifications settles
LamportNotificationSettles ==
    /\ session = "lamport"
    /\ subPc = "iterating"
    /\ subRes = Pending
    /\ \E o \in NotificationOutcomes :
          /\ subRes' = o
          /\ notifications' = IF o.tag = "resolved" THEN notifications + 1 ELSE notifications
    /\ UNCHANGED <<session, malformed, aborted, lastUpdateSlot, snapPc, snapRes, subPc,
                   calls, arrived, cleanupCalls>>
    /\ UNCHANGED <<checkVars, pairVars, airdropVars>>

\* Mutant: after the loop the function awaits a promise that never settles.
LamportNotificationWaitsAfterLoop ==
    /\ session = "lamport"
    /\ subPc = "iterating"
    /\ subRes # Pending
    /\ subRes' = Pending
    /\ arrived' = Append(arrived, Event(subRes, "subscription", subPc))
    /\ IF subRes.tag = "resolved"
       THEN /\ subPc' = "iterating"
            /\ IF NotificationIsStale(subRes.slot)
               THEN UNCHANGED <<lastUpdateSlot, calls>>
               ELSE /\ lastUpdateSlot' = subRes.slot
                    /\ calls' = Append(calls, Call(Null, subRes.value, subRes.slot, "subscription"))
       ELSE /\ subPc' = "waiting"
            /\ UNCHANGED lastUpdateSlot
            /\ IF subRes.tag = "end"
               THEN UNCHANGED calls
               ELSE LET error == ensureError(subRes.thrown) IN
                    IF LamportReports(error)
                    THEN calls' = Append(calls, Call(error, Null, -1, "subscription"))
                    ELSE UNCHANGED calls
    /\ UNCHANGED <<session, malformed, aborted, snapPc, snapRes, cleanupCalls, notifications>>
    /\ UNCHANGED <<checkVars, pairVars, airdropVars>>

\* subscribeToUpdates: one turn of the for await loop, its end, or the inner catch
LamportNotification ==
    /\ session = "lamport"
    /\ subPc = "iterating"
    /\ subRes # Pending
    /\ subRes' = Pending
    /\ arrived' = Append(arrived, Event(subRes, "subscription", subPc))
    /\ IF subRes.tag = "resolved"
       THEN /\ subPc' = "iterating"
            /\ IF NotificationIsStale(subRes.slot)
               THEN UNCHANGED <<lastUpdateSlot, calls>>
               ELSE /\ lastUpdateSlot' = subRes.slot
                    /\ calls' = Append(calls, Call(Null, subRes.value, subRes.slot, "subscription"))
       ELSE /\ subPc' = "done"
            /\ UNCHANGED lastUpdateSlot
            /\ IF subRes.tag = "end"
               THEN UNCHANGED calls
               ELSE LET error == ensureError(subRes.thrown) IN
                    IF LamportReports(error)
                    THEN calls' = Append(calls, Call(error, Null, -1, "subscription"))
                    ELSE UNCHANGED calls
    /\ UNCHANGED <<session, malformed, aborted, snapPc, snapRes, cleanupCalls, notifications>>
    /\ UNCHANGED <<checkVars, pairVars, airdropVars>>

(***************************************************************************)
(* watchTokenBalance's workflows (lib/tokens.ts).                          *)
(***************************************************************************)

\* watchTokenBalance(ownerAddress, mintAddress, callback): the synchronous part
watchTokenBalance ==
    /\ session = "none"
    /\ session' = "token"
    /\ \E m \in BOOLEAN : malformed' = m
    /\ aborted' = FALSE
    /\ lastUpdateSlot' = -1
    /\ snapPc' = "awaiting"
    /\ snapRes' = Pending
    /\ subPc' = "deriving"
    /\ subRes' = Pending
    /\ UNCHANGED <<calls, arrived, cleanupCalls, notifications>>
    /\ UNCHANGED <<checkVars, pairVars, airdropVars>>

\* What getTokenAccountBalance({wallet, mint, useTokenExtensions}) can settle to.
\* It derives the token account address (which fails on a malformed mint) and
\* sends rpc.getTokenAccountBalance(...) with no abort signal.
GetTokenAccountBalanceOutcomes ==
    IF malformed THEN {Rejected(MalformedIdentity)}
    ELSE {Resolved(-1, getTokenAccountBalance(r)) : r \in RpcTokenBalanceResults}
         \cup {Rejected(AccountAbsent), Rejected(TransportFailure)}

\* What getTokenAccountAddress(ownerAddress, mintAddress, useTokenExtensions) can settle to.
GetTokenAccountAddressOutcomes ==
    IF malformed THEN {Rejected(MalformedIdentity)} ELSE {Resolved(-1, Null)}

\* What the next step of  for await (... of accountInfoNotifications)  can settle
\* to; the loop of watchTokenBalance reads only context.slot of a notification.
TokenNotificationOutcomes ==
    IF aborted THEN {StreamEnd, Rejected(AbortError)}
    ELSE {Resolved(s, Null) : s \in (IF notifications < MaxNotifications THEN Slots ELSE {})}
         \cup {StreamEnd, Rejected(TransportFailure), Rejected(NonErrorThrown)}

\* if (slot < lastUpdateSlot) continue;
TokenNotificationIsStale(slot) == slot < lastUpdateSlot

\* Mutant: the comparison is inverted.
TokenBalanceCatchReportsInverted(error) == error.name = "AbortError"

\* if ((error as Error)?.name !== 'AbortError') callback(null, {amount: 0n, ...});
TokenBalanceCatchReports(error) == error.name # "AbortError"

\* if (error.name !== 'AbortError') callback(error, null);
TokenReports(error) == error.name # "AbortError"

\* await getTokenAccountBalance(...) of fetchInitialBalance settles
TokenBalanceSettles ==
    /\ session = "token"
    /\ snapPc = "awaiting"
    /\ snapRes = Pending
    /\ \E o \in GetTokenAccountBalanceOutcomes : snapRes' = o
    /\ UNCHANGED <<session, malformed, aborted, lastUpdateSlot, snapPc, subPc, subRes,
                   calls, arrived, cleanupCalls, notifications>>
    /\ UNCHANGED <<checkVars, pairVars, airdropVars>>

\* fetchInitialBalance: from the settled await to the end of the function
TokenFetchInitialBalance ==
    /\ session = "token"
    /\ snapPc = "awaiting"
    /\ snapRes # Pending
    /\ snapPc' = "done"
    /\ snapRes' = Pending
    /\ arrived' = Append(arrived, Event(snapRes, "snapshot", "snapshot"))
    /\ IF snapRes.tag = "resolved"
       THEN calls' = Append(calls, Call(Null, snapRes.value, -1, "snapshot"))
       ELSE IF TokenBalanceCatchReports(snapRes.thrown)
            THEN calls' = Append(calls, Call(Null, ZeroBalance, -1, "snapshot"))
            ELSE UNCHANGED calls
    /\ UNCHANGED <<session, malformed, aborted, lastUpdateSlot, subPc, subRes,
                   cleanupCalls, notifications>>
    /\ UNCHANGED <<checkVars, pairVars, airdropVars>>

\* await getTokenAccountAddress(...) of subscribeToUpdates settles
TokenAddressSettles ==
    /\ session = "token"
    /\ subPc = "deriving"
    /\ subRes = Pending
    /\ \E o \in GetTokenAccountAddressOutcomes : subRes' = o
    /\ UNCHANGED <<session, malformed, aborted, lastUpdateSlot, snapPc, snapRes, subPc,
                   calls, arrived, cleanupCalls, notifications>>
    /\ UNCHANGED <<checkVars, pairVars, airdropVars>>

\* await rpcSubscriptions.accountNotifications(tokenAccountAddress).subscribe(...) settles
TokenSubscribeSettles ==
    /\ session = "token"
    /\ subPc = "subscribing"
    /\ subRes = Pending
    /\ \E o \in SubscribeOutcomes : subRes' = o
    /\ UNCHANGED <<session, malformed, aborted, lastUpdateSlot, snapPc, snapRes, subPc,
                   calls, arrived, cleanupCalls, notifications>>
    /\ UNCHANGED <<checkVars, pairVars, airdropVars>>

\* subscribeToUpdates: from a settled await before the loop to the next await,
\* or through the outer catch
TokenSubscribeToUpdates ==
    /\ session = "token"
    /\ subPc \in {"deriving", "subscribing"}
    /\ subRes # Pending
    /\ subRes' = Pending
    /\ arrived' = Append(arrived, Event(subRes, "subscription", subPc))
    /\ IF subRes.tag = "resolved"
       THEN /\ subPc' = IF subPc = "deriving" THEN "subscribing" ELSE "iterating"
            /\ UNCHANGED calls
       ELSE /\ subPc' = "done"
            /\ LET error == ensureError(subRes.thrown) IN
               IF TokenReports(error)
               THEN calls' = Append(calls, Call(error, Null, -1, "subscription"))
               ELSE UNCHANGED calls
    /\ UNCHANGED <<session, malformed, aborted, lastUpdateSlot, snapPc, snapRes,
                   cleanupCalls, notifications>>
    /\ UNCHANGED <<checkVars, pairVars, airdropVars>>

\* Mutant: the next notification is taken while the re-query is still pending.
TokenNotificationSettlesDuringRequery ==
    /\ session = "token"
    /\ subPc \in {"iterating", "requery"}
    /\ subRes = Pending
    /\ \E o \in TokenNotificationOutcomes :
          /\ subRes' = o
          /\ notifications' = IF o.tag = "resolved" THEN notifications + 1 ELSE notifications
    /\ UNCHANGED <<session, malformed, aborted, lastUpdateSlot, snapPc, snapRes, subPc,
                   calls, arrived, cleanupCalls>>
    /\ UNCHANGED <<checkVars, pairVars, airdropVars>>

\* the next element of accountInfoNotifications settles
TokenNotificationSettles ==
    /\ session = "token"
    /\ subPc = "iterating"
    /\ subRes = Pending
    /\ \E o \in TokenNotificationOutcomes :
          /\ subRes' = o
          /\ notifications' = IF o.tag = "resolved" THEN notifications + 1 ELSE notifications
    /\ UNCHANGED <<session, malformed, aborted, lastUpdateSlot, snapPc, snapRes, subPc,
                   calls, arrived, cleanupCalls>>
    /\ UNCHANGED <<checkVars, pairVars, airdropVars>>

\* subscribeToUpdates: one turn of the for await loop up to the re-query's await,
\* the loop's end, or the inner catch
TokenNotification ==
    /\ session = "token"
    /\ subPc = "iterating"
    /\ subRes # Pending
    /\ subRes' = Pending
    /\ arrived' = Append(arrived, Event(subRes, "subscription", subPc))
    /\ IF subRes.tag = "resolved"
       THEN /\ UNCHANGED calls
            /\ IF TokenNotificationIsStale(subRes.slot)
               THEN /\ subPc' = "iterating"
                    /\ UNCHANGED lastUpdateSlot
               ELSE /\ lastUpdateSlot' = subRes.slot
                    /\ subPc' = "requery"
       ELSE /\ subPc' = "done"
            /\ UNCHANGED lastUpdateSlot
            /\ IF subRes.tag = "end"
               THEN UNCHANGED calls
               ELSE LET error == ensureError(subRes.thrown) IN
                    IF TokenReports(error)
                    THEN calls' = Append(calls, Call(error, Null, -1, "subscription"))
                    ELSE UNCHANGED calls
    /\ UNCHANGED <<session, malformed, aborted, snapPc, snapRes, cleanupCalls, notifications>>
    /\ UNCHANGED <<checkVars, pairVars, airdropVars>>

\* await getTokenAccountBalance(...) inside the loop settles
TokenRequerySettles ==
    /\ session = "token"
    /\ subPc = "requery"
    /\ subRes = Pending
    /\ \E o \in GetTokenAccountBalanceOutcomes : subRes' = o
    /\ UNCHANGED <<session, malformed, aborted, lastUpdateSlot, snapPc, snapRes, subPc,
                   calls, arrived, cleanupCalls, notifications>>
    /\ UNCHANGED <<checkVars, pairVars, airdropVars>>

\* Mutant: a failed re-query ends the loop.
TokenRequeryEndsOnFailure ==
    /\ session = "token"
    /\ subPc = "requery"
    /\ subRes # Pending
    /\ subRes' = Pending
    /\ subPc' = IF subRes.tag = "resolved" THEN "iterating" ELSE "done"
    /\ arrived' = Append(arrived, Event(subRes, "subscription", subPc))
    /\ IF subRes.tag = "resolved"
       THEN calls' = Append(calls, Call(Null, subRes.value, lastUpdateSlot, "subscription"))
       ELSE IF TokenBalanceCatchReports(subRes.thrown)
            THEN calls' = Append(calls, Call(Null, ZeroBalance, lastUpdateSlot, "subscription"))
            ELSE UNCHANGED calls
    /\ UNCHANGED <<session, malformed, aborted, lastUpdateSlot, snapPc, snapRes,
                   cleanupCalls, notifications>>
    /\ UNCHANGED <<checkVars, pairVars, airdropVars>>

\* subscribeToUpdates: from the settled re-query to the next step of the loop.
\* The call is recorded with lastUpdateSlot, the slot of the notification that
\* triggered the re-query.
TokenRequery ==
    /\ session = "token"
    /\ subPc = "requery"
    /\ subRes # Pending
    /\ subRes' = Pending
    /\ subPc' = "iterating"
    /\ arrived' = Append(arrived, Event(subRes, "subscription", subPc))
    /\ IF subRes.tag = "resolved"
       THEN calls' = Append(calls, Call(Null, subRes.value, lastUpdateSlot, "subscription"))
       ELSE IF TokenBalanceCatchReports(subRes.thrown)
            THEN calls' = Append(calls, Call(Null, ZeroBalance, lastUpdateSlot, "subscription"))
            ELSE UNCHANGED calls
    /\ UNCHANGED <<session, malformed, aborted, lastUpdateSlot, snapPc, snapRes,
                   cleanupCalls, notifications>>
    /\ UNCHANGED <<checkVars, pairVars, airdropVars>>

\* Mutant: each call flips the signal instead of raising it.
cleanupToggles ==
    /\ session # "none"
    /\ cleanupCalls < MaxCleanupCalls
    /\ aborted' = ~aborted
    /\ cleanupCalls' = cleanupCalls + 1
    /\ UNCHANGED <<session, malformed, lastUpdateSlot, snapPc, snapRes, subPc, subRes,
                   calls, arrived, notifications>>
    /\ UNCHANGED <<checkVars, pairVars, airdropVars>>

\* the function watchLamportBalance / watchTokenBalance returns:
\*   () => { abortController.abort(); }
cleanup ==
    /\ session # "none"
    /\ cleanupCalls < MaxCleanupCalls
    /\ aborted' = TRUE
    /\ cleanupCalls' = cleanupCalls + 1
    /\ UNCHANGED <<session, malformed, lastUpdateSlot, snapPc, snapRes, subPc, subRes,
                   calls, arrived, notifications>>
    /\ UNCHANGED <<checkVars, pairVars, airdropVars>>

Next ==
    \/ watchLamportBalance
    \/ GetBalanceSettles
    \/ LamportFetchInitialBalance
    \/ LamportSubscribeSettles
    \/ LamportSubscribeToUpdates
    \/ LamportNotificationSettles
    \/ LamportNotification
    \/ watchTokenBalance
    \/ TokenBalanceSettles
    \/ TokenFetchInitialBalance
    \/ TokenAddressSettles
    \/ TokenSubscribeSettles
    \/ TokenSubscribeToUpdates
    \/ TokenNotificationSettles
    \/ TokenNotification
    \/ TokenRequerySettles
    \/ TokenRequery
    \/ cleanup

Spec == Init /\ [][Next]_vars

\* Spec with the scheduling of continuations: once an awaited promise has settled,
\* the job that resumes the async function is in the microtask queue and runs.
FairSpec ==
    /\ Spec
    /\ WF_vars(LamportFetchInitialBalance)
    /\ WF_vars(TokenFetchInitialBalance)

\* a step of a workflow: an awaited promise settles, or a continuation runs
WorkflowStep ==
    \/ GetBalanceSettles
    \/ LamportFetchInitialBalance
    \/ LamportSubscribeSettles
    \/ LamportSubscribeToUpdates
    \/ LamportNotificationSettles
    \/ LamportNotification
    \/ TokenBalanceSettles
    \/ TokenFetchInitialBalance
    \/ TokenAddressSettles
    \/ TokenSubscribeSettles
    \/ TokenSubscribeToUpdates
    \/ TokenNotificationSettles
    \/ TokenNotification
    \/ TokenRequerySettles
    \/ TokenRequery

\* Sessions with at most MaxLiveNotifications notifications and
\* MaxLiveCleanupCalls calls of cleanup.
WithinLiveBounds ==
    notifications' <= MaxLiveNotifications /\ cleanupCalls' <= MaxLiveCleanupCalls

LiveNext == Next /\ WithinLiveBounds

\* Collaborators that settle every pending request and step of the stream, and
\* the scheduling of continuations: a workflow step that stays possible is taken.
LiveSpec == Init /\ [][LiveNext]_vars /\ WF_vars(WorkflowStep /\ WithinLiveBounds)

(***************************************************************************)
(* Sessions whose callback throws.  callback(...) is called inside the try *)
(* blocks of the workflows, so what it throws is caught by the enclosing   *)
(* catch blocks, which call it again.                                      *)
(***************************************************************************)

\* at most MaxThrows invocations of the callback throw in a session
MaxThrows == 1

CallbackFailure == [isError |-> TRUE, name |-> "Error", message |-> "callback failed"]

\* what an invocation of the callback can throw
CallbackThrown == {CallbackFailure, AbortError, NonErrorThrown}

\* the invocations of the callback that threw: each is recorded in arrived, right
\* after the outcome or the throw whose handling made the invocation
Throws == {j \in DOMAIN arrived : arrived[j].stage = "callback"}

\* the values thrown by the successive invocations of one continuation
ThrowSeqs == UNION {[1..k -> CallbackThrown] : k \in 1..(MaxThrows - Cardinality(Throws))}

\* The invocation a catch block makes for the value it caught, if any:
\*   "lamportCatch"  the catch blocks of watchLamportBalance
\*   "tokenCatch"    the inner and outer catch of watchTokenBalance's subscribeToUpdates
\*   "balanceCatch"  the catch blocks around getTokenAccountBalance in watchTokenBalance
CatchCall(handler, thrown, from, slot, cause) ==
    IF handler = "balanceCatch"
    THEN IF TokenBalanceCatchReports(thrown)
         THEN <<[Call(Null, ZeroBalance, slot, from) EXCEPT !.cause = cause]>>
         ELSE <<>>
    ELSE LET error == ensureError(thrown) IN
         IF (handler = "lamportCatch" /\ LamportReports(error))
               \/ (handler = "tokenCatch" /\ TokenReports(error))
         THEN <<[Call(error, Null, -1, from) EXCEPT !.cause = cause]>>
         ELSE <<>>

\* ts[1] is thrown inside the try blocks whose catch blocks are handlers, innermost
\* first: each catch block but the last reached makes an invocation, which throws
\* the next value to the next catch block, or out of the async function
Catches(ts, handlers) ==
    /\ Len(ts) <= Len(handlers) + 1
    /\ \A k \in 1..(Len(ts) - 1) : CatchCall(handlers[k], ts[k], "", -1, 0) # <<>>

\* the invocations the catch blocks make
CatchCalls(ts, handlers, from, slot) ==
    LET last == Len(ts)
        n == IF last <= Len(handlers) /\ CatchCall(handlers[last], ts[last], "", -1, 0) # <<>>
             THEN last ELSE last - 1
    IN  [k \in 1..n |-> CatchCall(handlers[k], ts[k], from, slot, Len(arrived) + 1 + k)[1]]

ThrowEvents(ts, from) == [k \in 1..Len(ts) |-> Event(Rejected(ts[k]), from, "callback")]

\* fetchInitialBalance of watchLamportBalance, with a callback that throws
LamportFetchInitialBalanceThrows ==
    /\ session = "lamport"
    /\ snapPc = "awaiting"
    /\ snapRes # Pending
    /\ snapPc' = "done"
    /\ snapRes' = Pending
    /\ \E ts \in ThrowSeqs :
          /\ arrived' = Append(arrived, Event(snapRes, "snapshot", "snapshot"))
                            \o ThrowEvents(ts, "snapshot")
          /\ IF snapRes.tag = "resolved"
             THEN /\ ~SnapshotIsStale(snapRes.slot)
                  /\ Catches(ts, <<"lamportCatch">>)
                  /\ lastUpdateSlot' = snapRes.slot
                  /\ calls' = Append(calls, Call(Null, snapRes.value, snapRes.slot, "snapshot"))
                                 \o CatchCalls(ts, <<"lamportCatch">>, "snapshot", -1)
             ELSE /\ LamportReports(ensureError(snapRes.thrown))
                  /\ Catches(ts, <<>>)
                  /\ UNCHANGED lastUpdateSlot
                  /\ calls' = Append(calls, Call(ensureError(snapRes.thrown), Null, -1, "snapshot"))
    /\ UNCHANGED <<session, malformed, aborted, subPc, subRes, cleanupCalls, notifications>>
    /\ UNCHANGED <<checkVars, pairVars, airdropVars>>

\* the outer catch of watchLamportBalance's subscribeToUpdates, with a callback
\* that throws
LamportSubscribeToUpdatesThrows ==
    /\ session = "lamport"
    /\ subPc = "subscribing"
    /\ subRes # Pending
    /\ subRes.tag = "rejected"
    /\ LamportReports(ensureError(subRes.thrown))
    /\ subRes' = Pending
    /\ subPc' = "done"
    /\ \E ts \in ThrowSeqs :
          /\ Catches(ts, <<>>)
          /\ arrived' = Append(arrived, Event(subRes, "subscription", subPc))
                            \o ThrowEvents(ts, "subscription")
    /\ calls' = Append(calls, Call(ensureError(subRes.thrown), Null, -1, "subscription"))
    /\ UNCHANGED <<session, malformed, aborted, lastUpdateSlot, snapPc, snapRes,
                   cleanupCalls, notifications>>
    /\ UNCHANGED <<checkVars, pairVars, airdropVars>>

\* one turn of the for await loop of watchLamportBalance, or its inner catch, with
\* a callback that throws: the throw leaves the loop
LamportNotificationThrows ==
    /\ session = "lamport"
    /\ subPc = "iterating"
    /\ subRes # Pending
    /\ subRes.tag # "end"
    /\ subRes' = Pending
    /\ subPc' = "done"
    /\ \E ts \in ThrowSeqs :
          /\ arrived' = Append(arrived, Event(subRes, "subscription", subPc))
                            \o ThrowEvents(ts, "subscription")
          /\ IF subRes.tag = "resolved"
             THEN /\ ~NotificationIsStale(subRes.slot)
                  /\ Catches(ts, <<"lamportCatch", "lamportCatch">>)
                  /\ lastUpdateSlot' = subRes.slot
                  /\ calls' = Append(calls, Call(Null, subRes.value, subRes.slot, "subscription"))
                                 \o CatchCalls(ts, <<"lamportCatch", "lamportCatch">>,
                                               "subscription", -1)
             ELSE /\ LamportReports(ensureError(subRes.thrown))
                  /\ Catches(ts, <<"lamportCatch">>)
                  /\ UNCHANGED lastUpdateSlot
                  /\ calls' = Append(calls, Call(ensureError(subRes.thrown), Null, -1,
                                                 "subscription"))
                                 \o CatchCalls(ts, <<"lamportCatch">>, "subscription", -1)
    /\ UNCHANGED <<session, malformed, aborted, snapPc, snapRes, cleanupCalls, notifications>>
    /\ UNCHANGED <<checkVars, pairVars, airdropVars>>

\* fetchInitialBalance of watchTokenBalance, with a callback that throws
TokenFetchInitialBalanceThrows ==
    /\ session = "token"
    /\ snapPc = "awaiting"
    /\ snapRes # Pending
    /\ snapPc' = "done"
    /\ snapRes' = Pending
    /\ \E ts \in ThrowSeqs :
          /\ arrived' = Append(arrived, Event(snapRes, "snapshot", "snapshot"))
                            \o ThrowEvents(ts, "snapshot")
          /\ IF snapRes.tag = "resolved"
             THEN /\ Catches(ts, <<"balanceCatch">>)
                  /\ calls' = Append(calls, Call(Null, snapRes.value, -1, "snapshot"))
                                 \o CatchCalls(ts, <<"balanceCatch">>, "snapshot", -1)
             ELSE /\ TokenBalanceCatchReports(snapRes.thrown)
                  /\ Catches(ts, <<>>)
                  /\ calls' = Append(calls, Call(Null, ZeroBalance, -1, "snapshot"))
    /\ UNCHANGED <<session, malformed, aborted, lastUpdateSlot, subPc, subRes,
                   cleanupCalls, notifications>>
    /\ UNCHANGED <<checkVars, pairVars, airdropVars>>

\* the outer catch of watchTokenBalance's subscribeToUpdates, with a callback that
\* throws
TokenSubscribeToUpdatesThrows ==
    /\ session = "token"
    /\ subPc \in {"deriving", "subscribing"}
    /\ subRes # Pending
    /\ subRes.tag = "rejected"
    /\ TokenReports(ensureError(subRes.thrown))
    /\ subRes' = Pending
    /\ subPc' = "done"
    /\ \E ts \in ThrowSeqs :
          /\ Catches(ts, <<>>)
          /\ arrived' = Append(arrived, Event(subRes, "subscription", subPc))
                            \o ThrowEvents(ts, "subscription")
    /\ calls' = Append(calls, Call(ensureError(subRes.thrown), Null, -1, "subscription"))
    /\ UNCHANGED <<session, malformed, aborted, lastUpdateSlot, snapPc, snapRes,
                   cleanupCalls, notifications>>
    /\ UNCHANGED <<checkVars, pairVars, airdropVars>>

\* the inner catch of watchTokenBalance's subscribeToUpdates, with a callback that
\* throws
TokenNotificationThrows ==
    /\ session = "token"
    /\ subPc = "iterating"
    /\ subRes # Pending
    /\ subRes.tag = "rejected"
    /\ TokenReports(ensureError(subRes.thrown))
    /\ subRes' = Pending
    /\ subPc' = "done"
    /\ \E ts \in ThrowSeqs :
          /\ Catches(ts, <<"tokenCatch">>)
          /\ arrived' = Append(arrived, Event(subRes, "subscription", subPc))
                            \o ThrowEvents(ts, "subscription")
          /\ calls' = Append(calls, Call(ensureError(subRes.thrown), Null, -1, "subscription"))
                         \o CatchCalls(ts, <<"tokenCatch">>, "subscription", -1)
    /\ UNCHANGED <<session, malformed, aborted, lastUpdateSlot, snapPc, snapRes,
                   cleanupCalls, notifications>>
    /\ UNCHANGED <<checkVars, pairVars, airdropVars>>

\* the try around the re-query of watchTokenBalance, with a callback that throws:
\* what callback(null, balance) throws is caught by the catch of the re-query and
\* the loop goes on; what the callback throws there leaves the loop
TokenRequeryThrows ==
    /\ session = "token"
    /\ subPc = "requery"
    /\ subRes # Pending
    /\ subRes' = Pending
    /\ \E ts \in ThrowSeqs :
          /\ arrived' = Append(arrived, Event(subRes, "subscription", subPc))
                            \o ThrowEvents(ts, "subscription")
          /\ IF subRes.tag = "resolved"
             THEN /\ Catches(ts, <<"balanceCatch", "tokenCatch", "tokenCatch">>)
                  /\ subPc' = IF Len(ts) = 1 THEN "iterating" ELSE "done"
                  /\ calls' = Append(calls, Call(Null, subRes.value, lastUpdateSlot,
                                                 "subscription"))
                                 \o CatchCalls(ts, <<"balanceCatch", "tokenCatch", "tokenCatch">>,
                                               "subscription", lastUpdateSlot)
             ELSE /\ TokenBalanceCatchReports(subRes.thrown)
                  /\ Catches(ts, <<"tokenCatch", "tokenCatch">>)
                  /\ subPc' = "done"
                  /\ calls' = Append(calls, Call(Null, ZeroBalance, lastUpdateSlot,
                                                 "subscription"))
                                 \o CatchCalls(ts, <<"tokenCatch", "tokenCatch">>,
                                               "subscription", -1)
    /\ UNCHANGED <<session, malformed, aborted, lastUpdateSlot, snapPc, snapRes,
                   cleanupCalls, notifications>>
    /\ UNCHANGED <<checkVars, pairVars, airdropVars>>

ThrowNext ==
    \/ LiveNext
    \/ LamportFetchInitialBalanceThrows
    \/ LamportSubscribeToUpdatesThrows
    \/ LamportNotificationThrows
    \/ TokenFetchInitialBalanceThrows
    \/ TokenSubscribeToUpdatesThrows
    \/ TokenNotificationThrows
    \/ TokenRequeryThrows

\* sessions of at most MaxLiveNotifications notifications and MaxLiveCleanupCalls
\* calls of cleanup, in which the callback may throw
ThrowSpec == Init /\ [][ThrowNext]_vars

(***************************************************************************)
(* checkTokenAccountIsClosed (lib/tokens.ts): one call.                    *)
(***************************************************************************)

\* An address argument: left out, a well-formed address, or a string that is
\* not an address.
AddressArgs == {"absent", "valid", "malformed"}

CheckOptions ==
    [wallet : AddressArgs, mint : AddressArgs, tokenAccount : AddressArgs,
     useTokenExtensions : BOOLEAN]

\* throw new Error("wallet and mint are required when tokenAccount is not provided")
MissingArguments ==
    [isError |-> TRUE, name |-> "Error",
     message |-> "wallet and mint are required when tokenAccount is not provided"]

\* the node's account-not-found failure inside a longer message
AccountAbsentInContext ==
    [isError |-> TRUE, name |-> "SolanaError",
     message |-> "JSON-RPC error: Invalid param: could not find account (-32602)"]

\* what reading .message.includes of a value without a message property throws
PropertyReadError ==
    [isError |-> TRUE, name |-> "TypeError",
     message |-> "Cannot read properties of undefined (reading 'includes')"]

\* What rpc.getTokenAccountBalance(tokenAccount).send() followed by the
\* conversion of getTokenAccountBalance can settle to.
SendTokenAccountBalanceOutcomes(tokenAccount) ==
    IF tokenAccount = "malformed"
    THEN {Rejected(MalformedIdentity), Rejected(TransportFailure), Rejected(NonErrorThrown)}
    ELSE {Resolved(-1, getTokenAccountBalance(r)) : r \in RpcTokenBalanceResults}
         \cup {Rejected(AccountAbsent), Rejected(AccountAbsentInContext),
               Rejected(TransportFailure), Rejected(NonErrorThrown)}

\* What getTokenAccountBalance(options) can settle to.
GetTokenAccountBalanceFor(o) ==
    IF o.tokenAccount = "absent"
    THEN IF o.wallet = "absent" \/ o.mint = "absent"
         THEN {Rejected(MissingArguments)}
         ELSE IF o.wallet = "malformed" \/ o.mint = "malformed"
              THEN {Rejected(MalformedIdentity)}
              ELSE SendTokenAccountBalanceOutcomes("valid")
    ELSE SendTokenAccountBalanceOutcomes(o.tokenAccount)

\* options.tokenAccount = await getTokenAccountAddress(wallet, mint, useTokenExtensions)
WithDerivedTokenAccount(o) ==
    IF o.tokenAccount = "absent" /\ o.wallet = "valid" /\ o.mint = "valid"
    THEN [o EXCEPT !.tokenAccount = "valid"]
    ELSE o

\* String.prototype.includes
Includes(string, searchString) ==
    \E i \in 1..(Len(string) - Len(searchString) + 1) :
        SubSeq(string, i, i + Len(searchString) - 1) = searchString

\* a thrown value on which  error.message.includes(...)  can be evaluated
HasMessage(thrown) == thrown.isError

Returned(value) == [tag |-> "returned", value |-> value]
Thrown(thrown) == [tag |-> "thrown", thrown |-> thrown]

\* checkTokenAccountIsClosed(options): up to  await getTokenAccountBalance(options)
checkTokenAccountIsClosed ==
    /\ checkPc = "idle"
    /\ checkPc' = "awaiting"
    /\ \E o \in CheckOptions : options' = o
    /\ UNCHANGED <<checkRes, checkOutcome>>
    /\ UNCHANGED <<watchVars, pairVars, airdropVars>>

\* await getTokenAccountBalance(options)  settles
CheckBalanceSettles ==
    /\ checkPc = "awaiting"
    /\ checkRes = Pending
    /\ \E o \in GetTokenAccountBalanceFor(options) : checkRes' = o
    /\ options' = WithDerivedTokenAccount(options)
    /\ UNCHANGED <<checkPc, checkOutcome>>
    /\ UNCHANGED <<watchVars, pairVars, airdropVars>>

\* error.message.includes("Invalid param: could not find account")
MessageSaysAccountAbsent(error) ==
    Includes(error.message, "Invalid param: could not find account")

\* checkTokenAccountIsClosed: from the settled await to the return or throw
CheckTokenAccountIsClosedSettles ==
    /\ checkPc = "awaiting"
    /\ checkRes # Pending
    /\ checkPc' = "done"
    /\ checkOutcome' =
          IF checkRes.tag = "resolved" THEN Returned(FALSE)
          ELSE LET error == checkRes.thrown IN
               IF ~HasMessage(error) THEN Thrown(PropertyReadError)
               ELSE IF MessageSaysAccountAbsent(error) THEN Returned(TRUE)
               ELSE Thrown(error)
    /\ UNCHANGED <<options, checkRes>>
    /\ UNCHANGED <<watchVars, pairVars, airdropVars>>

CheckNext ==
    \/ checkTokenAccountIsClosed
    \/ CheckBalanceSettles
    \/ CheckTokenAccountIsClosedSettles

CheckSpec == Init /\ [][CheckNext]_vars

(***************************************************************************)
(* airdropIfRequired (lib/sol.ts): one call.                               *)
(***************************************************************************)

\* lamports: the amounts and balances of the calls
AirdropAmounts == {-1, 0, 1000}
MinimumBalances == {0, 1000, 1500}
LamportBalances == {0, 1000, 1500}
Commitments == {"null", "confirmed"}

AirdropArgs ==
    [airdropAmount : AirdropAmounts, minimumBalance : MinimumBalances,
     commitment : Commitments]

\* commitment || "finalized"
CommitmentOrFinalized(commitment) == IF commitment = "null" THEN "finalized" ELSE commitment

\* throw new Error(`Airdrop amount must be a positive number, not ${airdropAmount}`)
NegativeAmount ==
    [isError |-> TRUE, name |-> "Error", message |-> "Airdrop amount must be a positive number"]

\* the faucet's answer when it is asked too often
TooManyRequests ==
    [isError |-> TRUE, name |-> "SolanaError", message |-> "HTTP error (429): Too Many Requests"]

\* throw new Error(`You have requested too many airdrops for ${address}. ...`)
TooManyAirdrops ==
    [isError |-> TRUE, name |-> "Error", message |-> "You have requested too many airdrops"]

\* What getLamportBalance(address, commitment) can settle to: the value of the
\* response of rpc.getBalance, or the request's failure.
GetLamportBalanceOutcomes ==
    {Resolved(-1, Lamports(b)) : b \in LamportBalances} \cup {Rejected(TransportFailure)}

\* What airdrop({commitment, recipientAddress, lamports}) can settle to.
AirdropOutcomes ==
    {Resolved(-1, "signature"), Rejected(TooManyRequests), Rejected(TransportFailure),
     Rejected(NonErrorThrown)}

\* Mutant: a balance equal to the minimum is topped up as well.
BalanceIsEnoughStrictly(balance, minimumBalance) == balance > minimumBalance

\* if (balance >= minimumBalance) return null;
BalanceIsEnough(balance, minimumBalance) == balance >= minimumBalance

\* the call of airdrop(...) at the start of doAirDrop
AirdropRequest(args) ==
    [commitment |-> CommitmentOrFinalized(args.commitment), lamports |-> args.airdropAmount]

\* airdropIfRequired(address, airdropAmount, minimumBalance, commitment): up to
\* its first await, or to the throw
airdropIfRequired ==
    /\ airdropPc = "idle"
    /\ \E a \in AirdropArgs : airdropArgs' = a
    /\ IF airdropArgs'.airdropAmount < 0
       THEN /\ airdropPc' = "done"
            /\ airdropOutcome' = Thrown(NegativeAmount)
            /\ UNCHANGED <<balanceQueries, airdropRequests>>
       ELSE IF airdropArgs'.minimumBalance = 0
            THEN /\ airdropPc' = "airdropping"
                 /\ airdropRequests' = Append(airdropRequests, AirdropRequest(airdropArgs'))
                 /\ UNCHANGED <<airdropOutcome, balanceQueries>>
            ELSE /\ airdropPc' = "queryingBalance"
                 /\ UNCHANGED <<airdropOutcome, balanceQueries, airdropRequests>>
    /\ UNCHANGED airdropRes
    /\ UNCHANGED <<watchVars, checkVars, pairVars>>

\* await getLamportBalance(address, commitment || "finalized")  settles
AirdropBalanceSettles ==
    /\ airdropPc = "queryingBalance"
    /\ airdropRes = Pending
    /\ \E o \in GetLamportBalanceOutcomes : airdropRes' = o
    /\ UNCHANGED <<airdropPc, airdropArgs, airdropOutcome, balanceQueries, airdropRequests>>
    /\ UNCHANGED <<watchVars, checkVars, pairVars>>

\* airdropIfRequired: from the settled balance query to the return, the throw,
\* or the await of doAirDrop
AirdropIfRequiredContinues ==
    /\ airdropPc = "queryingBalance"
    /\ airdropRes # Pending
    /\ airdropRes' = Pending
    /\ IF airdropRes.tag = "rejected"
       THEN /\ airdropPc' = "done"
            /\ airdropOutcome' = Thrown(airdropRes.thrown)
            /\ UNCHANGED <<balanceQueries, airdropRequests>>
       ELSE /\ balanceQueries' = Append(balanceQueries, airdropRes.value.lamports)
            /\ IF BalanceIsEnough(airdropRes.value.lamports, airdropArgs.minimumBalance)
               THEN /\ airdropPc' = "done"
                    /\ airdropOutcome' = Returned(Null)
                    /\ UNCHANGED airdropRequests
               ELSE /\ airdropPc' = "airdropping"
                    /\ airdropRequests' = Append(airdropRequests, AirdropRequest(airdropArgs))
                    /\ UNCHANGED airdropOutcome
    /\ UNCHANGED airdropArgs
    /\ UNCHANGED <<watchVars, checkVars, pairVars>>

\* await airdrop({...})  of doAirDrop settles
AirdropSettles ==
    /\ airdropPc = "airdropping"
    /\ airdropRes = Pending
    /\ \E o \in AirdropOutcomes : airdropRes' = o
    /\ UNCHANGED <<airdropPc, airdropArgs, airdropOutcome, balanceQueries, airdropRequests>>
    /\ UNCHANGED <<watchVars, checkVars, pairVars>>

\* doAirDrop: from the settled airdrop to the return or the throw, which is
\* what airdropIfRequired returns or throws
doAirDrop ==
    /\ airdropPc = "airdropping"
    /\ airdropRes # Pending
    /\ airdropRes' = Pending
    /\ airdropPc' = "done"
    /\ airdropOutcome' =
          IF airdropRes.tag = "resolved" THEN Returned(airdropRes.value)
          ELSE LET error == airdropRes.thrown IN
               IF ~HasMessage(error) THEN Thrown(PropertyReadError)
               ELSE IF Includes(error.message, "Too Many Requests") THEN Thrown(TooManyAirdrops)
               ELSE Thrown(error)
    /\ UNCHANGED <<airdropArgs, balanceQueries, airdropRequests>>
    /\ UNCHANGED <<watchVars, checkVars, pairVars>>

AirdropNext ==
    \/ airdropIfRequired
    \/ AirdropBalanceSettles
    \/ AirdropIfRequiredContinues
    \/ AirdropSettles
    \/ doAirDrop

AirdropSpec == Init /\ [][AirdropNext]_vars

(***************************************************************************)
(* Two concurrent watchLamportBalance sessions made by one factory         *)
(* (lib/sol.ts).  Session i keeps its workflows' positions in sessions[i]; *)
(* its lastUpdateSlot and abort signal are the ones of the scope that      *)
(* declares them.                                                          *)
(***************************************************************************)

\* Mutant: lastUpdateSlot and abortController are declared in
\* watchLamportBalanceFactory, outside watchLamportBalance.
FactoryScope(i) == 0

\* const abortController = new AbortController(); let lastUpdateSlot = -1n;
\* are statements of watchLamportBalance: every call has its own.
ScopeOf(i) == i

LastUpdateSlotOf(i) == lastUpdateSlots[ScopeOf(i)]
AbortedOf(i) == abortSignals[ScopeOf(i)]

PairGetBalanceOutcomes(i) ==
    IF AbortedOf(i) THEN {Rejected(AbortError)}
    ELSE {Resolved(s, Lamports(LamportsAt(s))) : s \in PairSlots}
         \cup {Rejected(TransportFailure)}

PairSubscribeOutcomes(i) ==
    IF AbortedOf(i) THEN {Rejected(AbortError)}
    ELSE {Resolved(-1, Null), Rejected(TransportFailure)}

PairNotificationOutcomes(i) ==
    IF AbortedOf(i) THEN {StreamEnd, Rejected(AbortError)}
    ELSE {Resolved(s, Lamports(LamportsAt(s))) :
             s \in (IF sessions[i].notifications < MaxPairNotifications THEN PairSlots ELSE {})}
         \cup {StreamEnd, Rejected(TransportFailure)}

\* the callback history of session i after the code handled outcome o:
\* publish unless  slot < lastUpdateSlot,  report unless the error is an AbortError
PairCallsAfter(i, o) ==
    LET se == sessions[i] IN
    IF o.tag = "resolved"
    THEN IF o.slot < LastUpdateSlotOf(i) THEN se.calls
         ELSE Append(se.calls, [error |-> Null, balance |-> o.value, slot |-> o.slot])
    ELSE IF o.tag = "end" THEN se.calls
    ELSE LET error == ensureError(o.thrown) IN
         IF LamportReports(error)
         THEN Append(se.calls, [error |-> error, balance |-> Null, slot |-> -1])
         ELSE se.calls

\* lastUpdateSlot = slot;  when the outcome is published
PairSlotsAfter(i, o) ==
    IF o.tag = "resolved" /\ ~(o.slot < LastUpdateSlotOf(i))
    THEN [lastUpdateSlots EXCEPT ![ScopeOf(i)] = o.slot]
    ELSE lastUpdateSlots

\* watchLamportBalance(address, callback), the i-th call
PairWatch(i) ==
    /\ ~sessions[i].started
    /\ sessions' = [sessions EXCEPT ![i] =
                       [@ EXCEPT !.started = TRUE, !.snapPc = "awaiting",
                                 !.subPc = "subscribing"]]
    /\ lastUpdateSlots' = [lastUpdateSlots EXCEPT ![ScopeOf(i)] = -1]
    /\ abortSignals' = [abortSignals EXCEPT ![ScopeOf(i)] = FALSE]
    /\ UNCHANGED <<watchVars, checkVars, airdropVars>>

\* await rpc.getBalance(...).send({ abortSignal })  of session i settles
PairGetBalanceSettles(i) ==
    /\ sessions[i].snapPc = "awaiting"
    /\ sessions[i].snapRes = Pending
    /\ \E o \in PairGetBalanceOutcomes(i) :
          sessions' = [sessions EXCEPT ![i].snapRes = o]
    /\ UNCHANGED <<lastUpdateSlots, abortSignals, watchVars, checkVars, airdropVars>>

\* fetchInitialBalance of session i: from the settled await to the end
PairFetchInitialBalance(i) ==
    LET o == sessions[i].snapRes IN
    /\ sessions[i].snapPc = "awaiting"
    /\ o # Pending
    /\ sessions' = [sessions EXCEPT ![i] =
                       [@ EXCEPT !.snapPc = "done", !.snapRes = Pending,
                                 !.calls = PairCallsAfter(i, o),
                                 !.delivered = Append(@, o)]]
    /\ lastUpdateSlots' = PairSlotsAfter(i, o)
    /\ UNCHANGED <<abortSignals, watchVars, checkVars, airdropVars>>

\* the await of subscribeToUpdates of session i settles: the subscription is
\* established or fails, or the next notification arrives
PairSubscriptionSettles(i) ==
    /\ sessions[i].subPc \in {"subscribing", "iterating"}
    /\ sessions[i].subRes = Pending
    /\ \E o \in (IF sessions[i].subPc = "subscribing"
                 THEN PairSubscribeOutcomes(i) ELSE PairNotificationOutcomes(i)) :
          sessions' = [sessions EXCEPT ![i] =
                          [@ EXCEPT !.subRes = o,
                                    !.notifications =
                                        IF sessions[i].subPc = "iterating" /\ o.tag = "resolved"
                                        THEN @ + 1 ELSE @]]
    /\ UNCHANGED <<lastUpdateSlots, abortSignals, watchVars, checkVars, airdropVars>>

\* subscribeToUpdates of session i: from the settled subscribe to the loop, or
\* through the outer catch
PairSubscribeToUpdates(i) ==
    LET o == sessions[i].subRes IN
    /\ sessions[i].subPc = "subscribing"
    /\ o # Pending
    /\ sessions' = [sessions EXCEPT ![i] =
                       [@ EXCEPT !.subPc = IF o.tag = "resolved" THEN "iterating" ELSE "done",
                                 !.subRes = Pending,
                                 !.calls = IF o.tag = "resolved" THEN @ ELSE PairCallsAfter(i, o),
                                 !.delivered = IF o.tag = "resolved" THEN @ ELSE Append(@, o)]]
    /\ UNCHANGED <<lastUpdateSlots, abortSignals, watchVars, checkVars, airdropVars>>

\* subscribeToUpdates of session i: one turn of the loop, its end, or the inner catch
PairNotification(i) ==
    LET o == sessions[i].subRes IN
    /\ sessions[i].subPc = "iterating"
    /\ o # Pending
    /\ sessions' = [sessions EXCEPT ![i] =
                       [@ EXCEPT !.subPc = IF o.tag = "resolved" THEN "iterating" ELSE "done",
                                 !.subRes = Pending,
                                 !.calls = PairCallsAfter(i, o),
                                 !.delivered = Append(@, o)]]
    /\ lastUpdateSlots' = PairSlotsAfter(i, o)
    /\ UNCHANGED <<abortSignals, watchVars, checkVars, airdropVars>>

\* the cleanup function of session i:  () => { abortController.abort(); }
PairCleanup(i) ==
    /\ sessions[i].started
    /\ abortSignals' = [abortSignals EXCEPT ![ScopeOf(i)] = TRUE]
    /\ sessions' = [sessions EXCEPT ![i].cleaned = TRUE]
    /\ UNCHANGED <<lastUpdateSlots, watchVars, checkVars, airdropVars>>

PairNext ==
    \E i \in SessionIds :
        \/ PairWatch(i)
        \/ PairGetBalanceSettles(i)
        \/ PairFetchInitialBalance(i)
        \/ PairSubscriptionSettles(i)
        \/ PairSubscribeToUpdates(i)
        \/ PairNotification(i)
        \/ PairCleanup(i)

PairSpec == Init /\ [][PairNext]_vars

(***************************************************************************)
(* Properties.                                                             *)
(***************************************************************************)

IsValueCall(c) == c.error = Null
IsErrorCall(c) == c.error # Null
ValueCalls == SelectSeq(calls, IsValueCall)

\* the callback invocations made while handling the i-th consumed outcome
CallsFor(i) == {j \in DOMAIN calls : calls[j].cause = i}

IsFailure(e) == e.outcome.tag = "rejected"
\* a snapshot result or a notification: an update with its own position marker
IsDelivery(e) == e.outcome.tag = "resolved" /\ e.stage \in {"snapshot", "iterating"}
Deliveries == SelectSeq(arrived, IsDelivery)

\* C1: in a watchLamportBalance session the slots of the values passed to the
\* callback are strictly increasing from one value callback to the next.
C1_SlotsStrictlyIncrease ==
    session = "lamport" =>
        \A i \in 1..(Len(ValueCalls) - 1) : ValueCalls[i].slot < ValueCalls[i + 1].slot

\* The greedy subsequence of a sequence of deliveries: a delivery is kept if and
\* only if its slot is strictly greater than that of the last kept one.
RECURSIVE Greedy(_, _)
Greedy(deliveries, last) ==
    IF deliveries = <<>> THEN <<>>
    ELSE LET d == Head(deliveries) IN
         IF d.outcome.slot > last
         THEN <<d>> \o Greedy(Tail(deliveries), d.outcome.slot)
         ELSE Greedy(Tail(deliveries), last)

\* C2: in an uncancelled watchLamportBalance session with no failures the values
\* the callback observes are exactly the greedy subsequence of the deliveries in
\* arrival order (a delivery is published iff its slot is strictly greater than
\* the slot of the last published one, initially -1).
C2_CallbacksAreGreedySubsequence ==
    (session = "lamport" /\ ~aborted /\ \A i \in DOMAIN arrived : ~IsFailure(arrived[i])) =>
        LET kept == Greedy(Deliveries, -1) IN
        /\ Len(calls) = Len(kept)
        /\ \A i \in DOMAIN calls :
              /\ calls[i].error = Null
              /\ calls[i].balance = kept[i].outcome.value
              /\ calls[i].slot = kept[i].outcome.slot

\* C3: in a watchLamportBalance session the callback is never invoked once the
\* cleanup function has been called.
C3_NoLamportCallbackAfterCleanup ==
    session = "lamport" => \A i \in DOMAIN calls : ~calls[i].cancelled

\* C4: in a watchTokenBalance session the callback is never invoked once the
\* cleanup function has been called.
C4_NoTokenCallbackAfterCleanup ==
    session = "token" => \A i \in DOMAIN calls : ~calls[i].cancelled

\* C5: a second or later call of the cleanup function changes nothing of the
\* session (signal, last update slot, both workflows, callback history).
C5_CleanupIsIdempotent ==
    [][(cleanupCalls >= 1 /\ cleanupCalls' > cleanupCalls) =>
          UNCHANGED <<session, malformed, aborted, lastUpdateSlot, snapPc, snapRes,
                      subPc, subRes, calls, arrived, notifications>>]_vars

C5_SecondCleanupWithWorkPending ==
    /\ cleanupCalls = 2
    /\ snapPc = "awaiting"
    /\ subPc \notin {"idle", "done"}

\* C6: every callback invocation is (error, null) or (null, value): exactly one
\* of its two arguments is null.
C6_CallbackShape ==
    \A i \in DOMAIN calls : (calls[i].error = Null) # (calls[i].balance = Null)

C6_BothShapesSeen ==
    /\ \E i \in DOMAIN calls : calls[i].error # Null /\ calls[i].balance = Null
    /\ \E i \in DOMAIN calls : calls[i].error = Null /\ calls[i].balance # Null

\* C7: an abort failure is never passed to the callback, and every other failure
\* of the snapshot request, the subscription's establishment or its iteration
\* consumed while the session is active is passed to the callback as
\* (error, null), exactly once for that workflow.
C7_FailuresSurfaceOncePerWorkflow ==
    /\ \A i \in DOMAIN calls : calls[i].error # AbortError
    /\ \A i \in DOMAIN arrived :
          LET e == arrived[i] IN
          (/\ IsFailure(e)
           /\ e.stage # "requery"
           /\ e.outcome.thrown \notin {AbortError, AccountAbsent}
           /\ ~e.cancelled)
          => /\ Cardinality(CallsFor(i)) = 1
             /\ \A j \in CallsFor(i) :
                   /\ calls[j].error = ensureError(e.outcome.thrown)
                   /\ calls[j].balance = Null
             /\ Cardinality({j \in DOMAIN calls :
                               calls[j].from = e.from /\ IsErrorCall(calls[j])}) = 1

\* C8: a failure a workflow meets after the cleanup function was called does not
\* invoke the callback, whatever its kind.
C8_FailureAfterCleanupIsSuppressed ==
    \A i \in DOMAIN arrived :
        (IsFailure(arrived[i]) /\ arrived[i].cancelled) => CallsFor(i) = {}

\* the slot of the last value published before the i-th outcome was handled
LastPublishedBefore(i) ==
    LET earlier == {calls[j].slot : j \in {k \in DOMAIN calls :
                                             calls[k].cause < i /\ calls[k].error = Null}}
    IN IF earlier = {} THEN -1 ELSE CHOOSE m \in earlier : \A n \in earlier : n <= m

\* the i-th outcome is an update the watcher has to publish: for lamports a
\* snapshot or notification newer than the last published value, for tokens the
\* result of the snapshot query or of a re-query
MustPublish(i) ==
    LET e == arrived[i] IN
    /\ e.outcome.tag = "resolved"
    /\ IF session = "lamport"
       THEN IsDelivery(e) /\ e.outcome.slot > LastPublishedBefore(i)
       ELSE e.stage \in {"snapshot", "requery"}

FailedEarlier(workflow, i) ==
    \E j \in 1..(i - 1) : IsFailure(arrived[j]) /\ arrived[j].from = workflow

\* C9: a failure of one workflow neither cancels the session nor stops the other
\* workflow: the signal aborts only through the cleanup function, a workflow ends
\* only on an outcome of its own, and an update the other workflow receives after
\* the failure is still published.
C9_FailureLeavesOtherWorkflowRunning ==
    /\ aborted <=> cleanupCalls > 0
    /\ snapPc = "done" => \E i \in DOMAIN arrived : arrived[i].from = "snapshot"
    /\ subPc = "done" =>
          \E i \in DOMAIN arrived : /\ arrived[i].from = "subscription"
                                    /\ arrived[i].outcome.tag \in {"rejected", "end"}
    /\ \A i \in DOMAIN arrived :
          LET e == arrived[i] IN
          (/\ MustPublish(i)
           /\ FailedEarlier(IF e.from = "snapshot" THEN "subscription" ELSE "snapshot", i))
          => \E j \in CallsFor(i) : calls[j].error = Null /\ calls[j].balance = e.outcome.value

C9_NotificationPublishedAfterSnapshotFailure ==
    /\ ~aborted
    /\ session = "lamport"
    /\ \E i, k \in DOMAIN arrived :
          /\ i < k
          /\ arrived[i].from = "snapshot" /\ IsFailure(arrived[i])
          /\ \E j \in CallsFor(i) : calls[j].error # Null
          /\ arrived[k].from = "subscription" /\ MustPublish(k)
          /\ \E j \in CallsFor(k) : calls[j].error = Null

IsAbsentSnapshot(e) ==
    e.from = "snapshot" /\ IsFailure(e) /\ e.outcome.thrown = AccountAbsent

\* C10: in a watchTokenBalance session whose snapshot query finds no account, the
\* snapshot workflow invokes the callback exactly once, with
\* (null, {amount: 0, decimals: 9, uiAmount: 0, uiAmountString: "0"}), and never
\* with an error.
C10_AbsentAccountIsZeroBalance ==
    session = "token" =>
        \A i \in DOMAIN arrived :
            IsAbsentSnapshot(arrived[i]) =>
                /\ Cardinality(CallsFor(i)) = 1
                /\ Cardinality({j \in DOMAIN calls : calls[j].from = "snapshot"}) = 1
                /\ \A j \in CallsFor(i) :
                      /\ calls[j].error = Null
                      /\ calls[j].balance.amount = 0
                      /\ calls[j].balance.decimals = 9
                      /\ calls[j].balance.uiAmount = 0
                      /\ calls[j].balance.uiAmountString = "0"

C10_AbsentAccountSnapshotHandled ==
    /\ session = "token"
    /\ \E i \in DOMAIN arrived : IsAbsentSnapshot(arrived[i]) /\ CallsFor(i) # {}

\* a session on a malformed identity that was never cancelled
MalformedAndActive == session # "none" /\ malformed /\ ~aborted
BothWorkflowsSettled == snapPc = "done" /\ subPc = "done"
IsErrorShaped(c) == c.error # Null /\ c.error.isError /\ c.balance = Null

C12_FirstTokenCallbackIsError ==
    (session = "token" /\ malformed /\ calls # <<>>) => IsErrorShaped(calls[1])

\* a failure of a balance query of watchTokenBalance (the snapshot or a re-query)
\* that is neither an abort nor a missing account
IsOtherQueryFailure(e) ==
    /\ IsFailure(e)
    /\ e.stage \in {"snapshot", "requery"}
    /\ e.outcome.thrown \notin {AbortError, AccountAbsent}

\* C13: in a watchTokenBalance session a failure of the snapshot query or of a
\* re-query other than an abort or a missing account is passed to the callback
\* as (error, null), and a zero balance is synthesized only for a missing account.
C13_OnlyAbsentAccountIsZeroBalance ==
    session = "token" =>
        \A i \in DOMAIN arrived :
            (IsOtherQueryFailure(arrived[i]) /\ ~arrived[i].cancelled) =>
                /\ CallsFor(i) # {}
                /\ \A j \in CallsFor(i) :
                      /\ calls[j].balance = Null
                      /\ calls[j].error = ensureError(arrived[i].outcome.thrown)

\* The slots at which the node may have answered a balance query whose result
\* is the given balance: getTokenAccountBalance returns result.value without
\* result.context, so the workflows cannot tell these answers apart.
QuerySlots(balance) ==
    {r.context.slot : r \in {x \in RpcTokenBalanceResults : getTokenAccountBalance(x) = balance}}

IsTokenSnapshot(e) == e.from = "snapshot" /\ e.outcome.tag = "resolved"

\* C14: in a watchTokenBalance session the snapshot obeys the publish-only-if-newer
\* rule: whatever slot the snapshot query was answered at, a snapshot older than
\* an update the subscription workflow has already published is not passed to the
\* callback, and a published snapshot leaves the last update slot at or above its
\* own slot.
C14_TokenSnapshotPublishedOnlyIfNewer ==
    session = "token" =>
        \A i \in DOMAIN arrived :
            IsTokenSnapshot(arrived[i]) =>
                \A slot \in QuerySlots(arrived[i].outcome.value) :
                    /\ slot < LastPublishedBefore(i) => CallsFor(i) = {}
                    /\ CallsFor(i) # {} => lastUpdateSlot >= slot

IsTokenRequery(e) == e.stage = "requery" /\ e.outcome.tag = "resolved"

\* C15: in a watchTokenBalance session the balance published for a notification
\* is the one the re-query returned, and the slot held for it as the last update
\* slot is the slot the re-query was answered at, whatever that slot was, not the
\* slot of the notification.
C15_RequeryDecidesValueAndSlot ==
    session = "token" =>
        \A i \in DOMAIN arrived :
            IsTokenRequery(arrived[i]) =>
                \A j \in CallsFor(i) :
                    /\ calls[j].balance = arrived[i].outcome.value
                    /\ \A slot \in QuerySlots(arrived[i].outcome.value) : calls[j].slot = slot

NotificationProcessedBefore(i) ==
    \E k \in 1..(i - 1) : arrived[k].stage = "iterating" /\ arrived[k].outcome.tag = "resolved"

\* the snapshot request succeeded and its result was handled before any notification
IsFirstSnapshot(i) ==
    /\ arrived[i].from = "snapshot"
    /\ arrived[i].outcome.tag = "resolved"
    /\ ~NotificationProcessedBefore(i)

C20_StaleDeliveryIsDiscarded ==
    session = "lamport" =>
        \A i \in DOMAIN arrived :
            (IsDelivery(arrived[i]) /\ arrived[i].outcome.slot <= LastPublishedBefore(i))
                => CallsFor(i) = {}

QueryFailedWithAccountAbsent ==
    /\ checkRes.tag = "rejected"
    /\ Includes(checkRes.thrown.message, "Invalid param: could not find account")

RECURSIVE AloneCalls(_, _)
AloneCalls(outcomes, last) ==
    IF outcomes = <<>> THEN <<>>
    ELSE LET o == Head(outcomes) IN
         IF o.tag = "resolved"
         THEN IF o.slot < last THEN AloneCalls(Tail(outcomes), last)
              ELSE <<[error |-> Null, balance |-> o.value, slot |-> o.slot]>>
                   \o AloneCalls(Tail(outcomes), o.slot)
         ELSE IF o.tag = "end" \/ o.thrown = AbortError
              THEN AloneCalls(Tail(outcomes), last)
              ELSE <<[error |-> ensureError(o.thrown), balance |-> Null, slot |-> -1]>>
                   \o AloneCalls(Tail(outcomes), last)

C21_ActiveThenCancelled ==
    /\ [](aborted \in BOOLEAN /\ (session = "none" => ~aborted))
    /\ [][/\ aborted => aborted'
          /\ aborted' # aborted => cleanupCalls' = cleanupCalls + 1]_vars

C21_CancelledAfterFailureAndWorkSince ==
    /\ aborted
    /\ \E i, k \in DOMAIN arrived :
          /\ i < k
          /\ IsFailure(arrived[i]) /\ ~arrived[i].cancelled
          /\ arrived[k].cancelled
    /\ \E i \in DOMAIN arrived : arrived[i].outcome.tag = "end" /\ ~arrived[i].cancelled

\* C22: the session's abort signal reaches every request of both workflows: a
\* snapshot request, subscription or re-query that is pending when the cleanup
\* function has been called does not complete normally, it is aborted.
C22_PendingRequestsAreAborted ==
    [][/\ (aborted /\ snapRes = Pending /\ snapRes' # Pending)
             => snapRes' = Rejected(AbortError)
       /\ (aborted /\ subRes = Pending /\ subRes' # Pending /\ subPc # "deriving")
             => subRes'.tag # "resolved"]_vars

\* C24: every error passed to the callback is an Error: the thrown Error itself,
\* or for a thrown value that is not an Error a new Error whose message is
\* "Non-Error thrown: " followed by the value's string form.
C24_ErrorsAreNormalised ==
    \A j \in DOMAIN calls :
        calls[j].error # Null =>
            LET thrown == arrived[calls[j].cause].outcome.thrown IN
            /\ calls[j].error.isError
            /\ thrown.isError => calls[j].error = thrown
            /\ ~thrown.isError =>
                  /\ calls[j].error.name = "Error"
                  /\ calls[j].error.message = "Non-Error thrown: " \o thrown.message

C24_ErrorAndNonErrorReported ==
    /\ \E j \in DOMAIN calls :
          calls[j].error # Null /\ ~arrived[calls[j].cause].outcome.thrown.isError
    /\ \E j \in DOMAIN calls :
          calls[j].error # Null /\ arrived[calls[j].cause].outcome.thrown.isError

LastValueSlot == IF ValueCalls = <<>> THEN -1 ELSE ValueCalls[Len(ValueCalls)].slot

\* C26: in a watchLamportBalance session lastUpdateSlot never decreases; it is -1
\* while no value has been passed to the callback and otherwise the slot of the
\* latest value passed; an error callback or a call of cleanup leaves it unchanged.
C26_LastUpdateSlotIsMonotone ==
    /\ [](session = "lamport" => lastUpdateSlot = LastValueSlot)
    /\ [][(session = "lamport") =>
             /\ lastUpdateSlot' >= lastUpdateSlot
             /\ (cleanupCalls' # cleanupCalls \/ Len(ValueCalls') = Len(ValueCalls))
                   => lastUpdateSlot' = lastUpdateSlot]_vars

C26_SlotKeptThroughErrorAndCleanup ==
    /\ session = "lamport"
    /\ aborted
    /\ lastUpdateSlot = 5
    /\ Len(ValueCalls) = 2
    /\ \E j \in DOMAIN calls : calls[j].error # Null /\ j > 1

IsNotification(e) == e.stage = "iterating" /\ e.outcome.tag = "resolved"

\* the events of the subscription workflow among the first n consumed outcomes
SubscriptionEventsUpTo(n) == {j \in 1..n : arrived[j].from = "subscription"}
\* the subscription workflow's event that follows / precedes the k-th outcome (0: none)
NextSubscriptionEvent(k) ==
    LET later == {j \in SubscriptionEventsUpTo(Len(arrived)) : j > k}
    IN IF later = {} THEN 0 ELSE CHOOSE j \in later : \A m \in later : j <= m
PreviousSubscriptionEvent(k) ==
    LET earlier == SubscriptionEventsUpTo(k - 1)
    IN IF earlier = {} THEN 0 ELSE CHOOSE j \in earlier : \A m \in earlier : j >= m

\* C27: in a watchTokenBalance session the subscription yields its next
\* notification only to a loop that is waiting for one, never while a re-query
\* is pending; every re-query handled is the one of the notification handled just
\* before it, and the slots of the subscription workflow's callbacks follow the
\* order of the notifications.
C27_NotificationsOneAtATime ==
    /\ [][(session = "token" /\ notifications' # notifications)
             => subPc = "iterating" /\ subRes = Pending]_vars
    /\ [](session = "token" =>
             /\ \A k \in DOMAIN arrived :
                   arrived[k].stage = "requery" =>
                       /\ PreviousSubscriptionEvent(k) # 0
                       /\ IsNotification(arrived[PreviousSubscriptionEvent(k)])
             /\ \A i, j \in DOMAIN calls :
                   (i < j /\ calls[i].from = "subscription" /\ calls[j].from = "subscription"
                      /\ calls[i].error = Null /\ calls[j].error = Null)
                   => calls[i].slot <= calls[j].slot)

C27_TwoNotificationsRequeried ==
    /\ session = "token"
    /\ notifications = 2
    /\ Cardinality({k \in DOMAIN arrived : IsTokenRequery(arrived[k])}) = 2

\* the highest slot among the notifications handled before the k-th outcome
NotifiedSlotBefore(k) ==
    LET seen == {arrived[j].outcome.slot : j \in {m \in 1..(k - 1) : IsNotification(arrived[m])}}
    IN IF seen = {} THEN -1 ELSE CHOOSE m \in seen : \A n \in seen : n <= m

IsFailedRequery(e) == e.stage = "requery" /\ IsFailure(e)

C23_WorkflowsEndAfterCleanup ==
    aborted ~> (snapPc = "done" /\ snapRes = Pending /\ subPc = "done" /\ subRes = Pending)

C23_EndedAfterCleanupDuringRequery ==
    /\ aborted
    /\ snapPc = "done" /\ subPc = "done"
    /\ \E i \in DOMAIN arrived : arrived[i].stage = "requery" /\ arrived[i].cancelled
    /\ \E i \in DOMAIN arrived : arrived[i].outcome.tag = "end" /\ arrived[i].cancelled

AirdropIsDue ==
    /\ airdropArgs.airdropAmount >= 0
    /\ \/ airdropArgs.minimumBalance = 0
       \/ \E k \in DOMAIN balanceQueries : balanceQueries[k] < airdropArgs.minimumBalance

C28_SnapshotInvokesCallbackOnce ==
    session = "lamport" =>
        Cardinality({c \in DOMAIN calls : calls[c].from = "snapshot"}) <= 1

\* the invocation recorded at j in arrived as having thrown was made by the
\* subscription workflow to publish a value
ThrewOnSubscriptionValue(j) ==
    /\ arrived[j].stage = "callback"
    /\ arrived[j].from = "subscription"
    /\ \E c \in DOMAIN calls : calls[c].cause = j - 1 /\ calls[c].error = Null

\* C29: when the callback throws while it receives a value from the subscription
\* workflow, that workflow catches the thrown value, invokes the callback once
\* more with it as (error, null) unless it is named AbortError, and the loop ends:
\* no later notification is delivered, and the session is not cancelled.
C29_ThrowOnValueIsReportedAndEndsLoop ==
    \A j \in DOMAIN arrived :
        ThrewOnSubscriptionValue(j) =>
            LET error == ensureError(arrived[j].outcome.thrown)
                caused == {c \in DOMAIN calls : calls[c].cause = j}
            IN  /\ error.name # "AbortError" =>
                      /\ Cardinality(caused) = 1
                      /\ \A c \in caused : calls[c].error = error /\ calls[c].balance = Null
                /\ error.name = "AbortError" => caused = {}
                /\ subPc = "done"
                /\ \A c \in DOMAIN calls :
                      (calls[c].from = "subscription" /\ calls[c].cause > j)
                          => arrived[calls[c].cause].stage = "callback"
                /\ cleanupCalls = 0 => ~aborted
====
